---- MODULE Spec2Model ----
(***************************************************************************)
(* Model of the HTML -> Markdown conversion of astro-llms-generate.        *)
(*                                                                         *)
(* Two conversion pipelines exist in the repository:                       *)
(*   SimpleMarkdown         (src/src/simple-markdown.ts)                   *)
(*   entryToSimpleMarkdown  (src/unnamed/part_000), the one index.ts calls *)
(* Both parse the HTML into a hast tree, run a fixed list of tree stages,  *)
(* and serialize.  SimpleMarkdown then runs cleanupMarkdownForLlms.        *)
(*                                                                         *)
(* The hast tree is an arena: a sequence of node records addressed by      *)
(* index; index 1 is the root.  A node's children field is the sequence of *)
(* indices of its children (JavaScript object references).  Nodes that are *)
(* no longer reachable from the root stay in the arena, as detached        *)
(* JavaScript objects do while something still references them.            *)
(***************************************************************************)
EXTENDS Integers, Sequences, FiniteSets, TLC

VARIABLES
    tree,             \* the hast tree being transformed (arena)
    before,           \* the tree as it was when the last stage started
    parsed,           \* the tree as rehype-parse produced it
    stage,            \* the last step completed
    entry,            \* the conversion entry point called
    ignoreSelectors,  \* file.data.ignoreSelectors
    onlyStructure,    \* file.data.onlyStructure
    err,              \* an exception escaped the pipeline
    markdown,         \* the Markdown string (sequence of characters)
    serialized,       \* the string as the serializer returned it
    pages,            \* the pages the astro:build:done hook is given
    hook,             \* where the astro:build:done hook is
    task,             \* where each page task of discoverAndProcessPages is
    accessible,       \* the page tasks whose fs.access resolved
    extracted,        \* the page tasks whose extractPageData resolved
    results,          \* what each page promise resolved to
    warned,           \* the pathnames console.warn was called with
    pageData,         \* what discoverAndProcessPages returned
    written           \* the output files written

conversionVars ==
    <<tree, before, parsed, stage, entry, ignoreSelectors, onlyStructure,
      err, markdown, serialized>>

buildVars ==
    <<pages, hook, task, accessible, extracted, results, warned, pageData, written>>

vars == <<conversionVars, buildVars>>

\* the astro:build:done hook has not been called
NoBuild ==
    /\ pages = <<>>
    /\ hook = "idle"
    /\ task = <<>>
    /\ accessible = {}
    /\ extracted = {}
    /\ results = <<>>
    /\ warned = {}
    /\ pageData = <<>>
    /\ written = {}

(***************************************************************************)
(* Bounds of the model.                                                    *)
(***************************************************************************)
\* non-root nodes of an input tree of the removal specification
MaxNodes == 3
\* non-root nodes of an input tree of the code block specification
MaxCodeNodes == 7
\* non-root nodes of an input tree of the table specification
MaxTableNodes == 7
\* pieces of Markdown the serializer emits for one document
MaxPieces == 5
\* non-root nodes of an input tree of the widget specification
MaxWidgetNodes == 7

Root == 1

(***************************************************************************)
(* hast nodes.                                                             *)
(***************************************************************************)
RootNode ==
    [type |-> "root", tagName |-> "", className |-> <<>>, dataLanguage |-> "",
     role |-> "", value |-> <<>>, children |-> <<>>]

Element(tag, classes, lang, role) ==
    [type |-> "element", tagName |-> tag, className |-> classes,
     dataLanguage |-> lang, role |-> role, value |-> <<>>, children |-> <<>>]

Text(v) ==
    [type |-> "text", tagName |-> "", className |-> <<>>, dataLanguage |-> "",
     role |-> "", value |-> v, children |-> <<>>]

Comment(v) ==
    [type |-> "comment", tagName |-> "", className |-> <<>>, dataLanguage |-> "",
     role |-> "", value |-> v, children |-> <<>>]

Range(s) == {s[i] : i \in 1..Len(s)}

IsParent(n) == n.type \in {"root", "element"}

(***************************************************************************)
(* Constants of the source.                                                *)
(***************************************************************************)
structureSelectors == <<"h2", "h3", "h4", "h5", "h6", "ul", "ol", "li">>

llmsExcludedSelectors ==
    <<"img", "picture", "figure", "svg", "canvas", "video", "audio", "iframe",
      "object", "embed", ".image", ".photo", ".gallery", ".media">>

\* the list extractPageData passes to entryToSimpleMarkdown
pageIgnoreSelectors == <<"header", "footer", "nav", ".no-llms">>

(***************************************************************************)
(* hast-util-select, for the selectors the code and the callers use.  A    *)
(* parsed selector is a set of alternatives (comma list); an alternative   *)
(* is a compound of a tag name ("" for any), required classes, excluded    *)
(* classes (:not(.c)) and a required role attribute ("" for none).         *)
(***************************************************************************)
Compound(tag, classes, notClasses, role) ==
    [tag |-> tag, classes |-> classes, notClasses |-> notClasses, role |-> role]

TagSel(tag) == {Compound(tag, {}, {}, "")}
ClassSel(c) == {Compound("", {c}, {}, "")}

\* a selector string the CSS selector parser rejects
InvalidSelectors == {"a["}

ParseSelector(s) ==
    CASE s = ".image" -> ClassSel("image")
      [] s = ".photo" -> ClassSel("photo")
      [] s = ".gallery" -> ClassSel("gallery")
      [] s = ".media" -> ClassSel("media")
      [] s = ".no-llms" -> ClassSel("no-llms")
      [] s = ".expressive-code" -> ClassSel("expressive-code")
      [] s = ".sr-only" -> ClassSel("sr-only")
      [] s = "span.sr-only" -> {Compound("span", {"sr-only"}, {}, "")}
      [] s = "span:not(.indent)" -> {Compound("span", {}, {"indent"}, "")}
      [] s = "div.ec-line.ins, div.ec-line.del" ->
             {Compound("div", {"ec-line", "ins"}, {}, ""),
              Compound("div", {"ec-line", "del"}, {}, "")}
      [] s = "[role=\"tab\"]" -> {Compound("", {}, {}, "tab")}
      [] s = "[role=\"tabpanel\"]" -> {Compound("", {}, {}, "tabpanel")}
      [] s = "ul, ol" -> TagSel("ul") \cup TagSel("ol")
      [] s = "td, th" -> TagSel("td") \cup TagSel("th")
      [] s \in InvalidSelectors -> {}
      [] OTHER -> TagSel(s)

\* parsing the selector throws (hast-util-select parses on every call)
SelectorThrows(s) == s \in InvalidSelectors

MatchesCompound(c, n) ==
    /\ n.type = "element"
    /\ c.tag = "" \/ c.tag = n.tagName
    /\ c.classes \subseteq Range(n.className)
    /\ c.notClasses \cap Range(n.className) = {}
    /\ c.role = "" \/ c.role = n.role

\* matches(selector, node): the node alone is tested, never its context
Matches(s, n) ==
    /\ ~SelectorThrows(s)
    /\ \E c \in ParseSelector(s) : MatchesCompound(c, n)

(***************************************************************************)
(* Tree walks.                                                             *)
(***************************************************************************)
RECURSIVE PreOrder(_, _), PreOrderKids(_, _, _)
\* the nodes of the subtree of id, the node itself first, in document order
PreOrder(t, id) == <<id>> \o PreOrderKids(t, t[id].children, 1)

PreOrderKids(t, kids, i) ==
    IF i > Len(kids) THEN <<>>
    ELSE PreOrder(t, kids[i]) \o PreOrderKids(t, kids, i + 1)

\* Array.prototype.filter, the test given as the set of the values that pass
Filter(s, passing) ==
    LET F[i \in 0..Len(s)] ==
            IF i = 0 THEN <<>>
            ELSE IF s[i] \in passing THEN Append(F[i - 1], s[i]) ELSE F[i - 1]
    IN F[Len(s)]

\* selectAll(selector, node): every match in the subtree, the node included
selectAll(s, t, id) ==
    Filter(PreOrder(t, id), {x \in 1..Len(t) : Matches(s, t[x])})

Nil == 0

\* select(selector, node): the first match in document order, or nothing
select(s, t, id) ==
    LET all == selectAll(s, t, id) IN IF all = <<>> THEN Nil ELSE all[1]

\* the nodes reachable from the root
InTree(t) == Range(PreOrder(t, Root))

Descendants(t, id) == Range(PreOrderKids(t, t[id].children, 1))

(***************************************************************************)
(* unist-util-remove: remove(tree, test).  The walk is in preorder; a node *)
(* that passes the test is dropped with its subtree; with the default      *)
(* cascade a node that had children and lost them all is dropped too; the  *)
(* node the walk started from is neither tested nor dropped.  The tests    *)
(* the stages pass are described by records.                               *)
(***************************************************************************)
\* removeLlmsIncompatibleElements: matches(selector, element)
TestSelector(s) == [kind |-> "selector", sels |-> <<s>>]
\* removeUserSpecifiedElements / removeSomeElements: the first selector of
\* the list that matches makes the test return true
TestAnyOf(sels) == [kind |-> "anyOf", sels |-> sels]
\* keepOnlyStructure: !structureSelectors.some(sel => matches(sel, node))
TestNotStructure == [kind |-> "notStructure", sels |-> structureSelectors]
\* improveListHandling: a li element without children
TestEmptyLi == [kind |-> "emptyLi", sels |-> <<>>]

\* the loop over the selectors reaches selector i only if none before matched
TestThrows(test, n) ==
    /\ test.kind \in {"selector", "anyOf"}
    /\ \E i \in 1..Len(test.sels) :
          /\ SelectorThrows(test.sels[i])
          /\ \A j \in 1..(i - 1) : ~Matches(test.sels[j], n)

TestPasses(test, n) ==
    CASE test.kind \in {"selector", "anyOf"} ->
             \E i \in 1..Len(test.sels) : Matches(test.sels[i], n)
      [] test.kind = "notStructure" ->
             ~\E i \in 1..Len(test.sels) : Matches(test.sels[i], n)
      [] test.kind = "emptyLi" ->
             n.type = "element" /\ n.tagName = "li" /\ Len(n.children) = 0

\* cascade: a node whose children were all dropped is dropped as well
CascadeDrops(hadChildren, alive) == hadChildren /\ alive = <<>>

RECURSIVE RemovePreorder(_, _, _, _), RemoveChildren(_, _, _, _, _, _)
\* the result: the arena, whether the node stays, whether the test threw
RemovePreorder(t, id, top, test) ==
    IF id # top /\ TestThrows(test, t[id])
    THEN [t |-> t, keep |-> FALSE, err |-> TRUE]
    ELSE IF id # top /\ TestPasses(test, t[id])
    THEN [t |-> t, keep |-> FALSE, err |-> FALSE]
    ELSE IF Len(t[id].children) = 0
    THEN [t |-> t, keep |-> TRUE, err |-> FALSE]
    ELSE LET r == RemoveChildren(t, t[id].children, 1, <<>>, top, test)
         IN IF r.err THEN [t |-> r.t, keep |-> FALSE, err |-> TRUE]
            ELSE IF id # top /\ CascadeDrops(TRUE, r.alive)
            THEN [t |-> r.t, keep |-> FALSE, err |-> FALSE]
            ELSE [t |-> [r.t EXCEPT ![id].children = r.alive],
                  keep |-> TRUE, err |-> FALSE]

RemoveChildren(t, kids, i, alive, top, test) ==
    IF i > Len(kids) THEN [t |-> t, alive |-> alive, err |-> FALSE]
    ELSE LET r == RemovePreorder(t, kids[i], top, test)
         IN IF r.err THEN [t |-> r.t, alive |-> alive, err |-> TRUE]
            ELSE RemoveChildren(r.t, kids, i + 1,
                                IF r.keep THEN Append(alive, kids[i]) ELSE alive,
                                top, test)

\* remove(tree, test), its return value ignored as the stages do
remove(t, top, test) ==
    LET r == RemovePreorder(t, top, top, test) IN [t |-> r.t, err |-> r.err]

(***************************************************************************)
(* The removal stages, as functions of the tree: [t, err].                 *)
(***************************************************************************)
RECURSIVE RemoveEach(_, _, _)
\* for (const selector of llmsExcludedSelectors) remove(tree, ...)
RemoveEach(t, sels, i) ==
    IF i > Len(sels) THEN [t |-> t, err |-> FALSE]
    ELSE LET r == remove(t, Root, TestSelector(sels[i]))
         IN IF r.err THEN r ELSE RemoveEach(r.t, sels, i + 1)

RemoveLlmsIncompatible(t) == RemoveEach(t, llmsExcludedSelectors, 1)

\* a removal that stops at the first selector of the list
RemoveUserSpecifiedFirstOnly(t, sels) ==
    remove(t, Root, TestAnyOf(IF sels = <<>> THEN <<>> ELSE <<sels[1]>>))

\* data.ignoreSelectors || []
RemoveUserSpecified(t, sels) == remove(t, Root, TestAnyOf(sels))

KeepOnlyStructure(t, only) ==
    IF ~only THEN [t |-> t, err |-> FALSE]
    ELSE remove(t, Root, TestNotStructure)

(***************************************************************************)
(* Strings are sequences of one-character strings.                         *)
(***************************************************************************)
WhiteSpace == {" ", "\n", "\t", "\r"}

RECURSIVE TrimStart(_), TrimEnd(_)
TrimStart(v) == IF v # <<>> /\ Head(v) \in WhiteSpace THEN TrimStart(Tail(v)) ELSE v
TrimEnd(v) ==
    IF v # <<>> /\ v[Len(v)] \in WhiteSpace THEN TrimEnd(SubSeq(v, 1, Len(v) - 1))
    ELSE v

\* String.prototype.trim
Trim(v) == TrimEnd(TrimStart(v))

RECURSIVE Join(_, _)
\* Array.prototype.join
Join(parts, sep) ==
    IF parts = <<>> THEN <<>>
    ELSE IF Len(parts) = 1 THEN parts[1]
    ELSE parts[1] \o sep \o Join(Tail(parts), sep)

\* `language-${pre.properties.dataLanguage}`
LanguageClass(lang) == "language-" \o lang

(***************************************************************************)
(* Code Block Language Tagging.                                            *)
(***************************************************************************)
\* (codeElement.properties.className as string[]).push(token); a property
\* access on undefined throws a TypeError
PushClass(t, id, token) ==
    IF id = Nil THEN [t |-> t, err |-> TRUE]
    ELSE [t |-> [t EXCEPT ![id].className = Append(@, token)], err |-> FALSE]

\* the loop body without the test that a code element was found
TagCodeOfPreUnguarded(t, pre) ==
    LET codeElement == select("code", t, pre)
    IN IF t[pre].dataLanguage # ""
       THEN PushClass(t, codeElement, LanguageClass(t[pre].dataLanguage))
       ELSE [t |-> t, err |-> FALSE]

\* simple-markdown.ts: the body of the loop over the pre elements
TagCodeOfPre(t, pre) ==
    LET codeElement == select("code", t, pre)
    IN IF codeElement # Nil /\ t[codeElement].type = "element"
          /\ t[pre].dataLanguage # ""
       THEN PushClass(t, codeElement, LanguageClass(t[pre].dataLanguage))
       ELSE [t |-> t, err |-> FALSE]

RECURSIVE ForEachPre(_, _, _)
ForEachPre(t, pres, i) ==
    IF i > Len(pres) THEN [t |-> t, err |-> FALSE]
    ELSE LET r == TagCodeOfPre(t, pres[i])
         IN IF r.err THEN r ELSE ForEachPre(r.t, pres, i + 1)

ImproveCodeBlockHandling(t) == ForEachPre(t, selectAll("pre", t, Root), 1)

\* part_000: figcaption.children.splice(findIndex(span.sr-only), 1)
DropTerminalLabel(t, instance) ==
    LET figcaption == select("figcaption", t, instance)
    IN IF figcaption = Nil THEN t
       ELSE LET kids == t[figcaption].children
                hits == {i \in 1..Len(kids) : Matches("span.sr-only", t[kids[i]])}
            IN IF hits = {} THEN t
               ELSE LET k == CHOOSE i \in hits : \A j \in hits : i <= j
                    IN [t EXCEPT ![figcaption].children =
                           SubSeq(kids, 1, k - 1) \o SubSeq(kids, k + 1, Len(kids))]

\* part_000: the marker put in front of the first text of a flagged line
MarkLine(t, line) ==
    IF t[line].type # "element" THEN t
    ELSE LET marker == IF "ins" \in Range(t[line].className) THEN "+" ELSE "-"
             span == select("span:not(.indent)", t, line)
             firstChild == IF span = Nil \/ t[span].children = <<>> THEN Nil
                           ELSE t[span].children[1]
         IN IF firstChild # Nil /\ t[firstChild].type = "text"
            THEN [t EXCEPT ![firstChild].value = <<marker>> \o @]
            ELSE t

RECURSIVE MarkLines(_, _, _)
MarkLines(t, lines, i) ==
    IF i > Len(lines) THEN t ELSE MarkLines(MarkLine(t, lines[i]), lines, i + 1)

\* the lines looked for without the exception for the hint diff: flagged lines
\* are collected whatever the hint is
DiffLinesAlwaysScans(t, pre, code) ==
    Filter(t[code].children,
           {x \in 1..Len(t) : Matches("div.ec-line.ins, div.ec-line.del", t[x])})

\* part_000: diffLines = hint === 'diff' ? [] : code.children.filter(matches(...))
DiffLines(t, pre, code) ==
    IF t[pre].dataLanguage = "diff" THEN <<>>
    ELSE Filter(t[code].children,
                {x \in 1..Len(t) :
                    Matches("div.ec-line.ins, div.ec-line.del", t[x])})

\* part_000: the class pushed on the code element, and the lines marked
TagWithLines(t, code, hint, diffLines) ==
    IF diffLines = <<>> THEN PushClass(t, code, LanguageClass(hint))
    ELSE LET r == PushClass(t, code, "language-diff")
         IN [t |-> MarkLines(r.t, diffLines, 1), err |-> r.err]

\* part_000: if (pre?.properties.dataLanguage && code) { ... }
TagPreAndCode(t, pre, code) ==
    IF pre # Nil /\ t[pre].dataLanguage # "" /\ code # Nil
    THEN TagWithLines(t, code, t[pre].dataLanguage, DiffLines(t, pre, code))
    ELSE [t |-> t, err |-> FALSE]

\* part_000: the body of the loop over the .expressive-code instances
TagCodeOfInstance(t0, instance) ==
    LET t == DropTerminalLabel(t0, instance)
    IN TagPreAndCode(t, select("pre", t, instance), select("code", t, instance))

RECURSIVE ForEachInstance(_, _, _)
ForEachInstance(t, instances, i) ==
    IF i > Len(instances) THEN [t |-> t, err |-> FALSE]
    ELSE LET r == TagCodeOfInstance(t, instances[i])
         IN IF r.err THEN r ELSE ForEachInstance(r.t, instances, i + 1)

ImproveExpressiveCodeHandling(t) ==
    ForEachInstance(t, selectAll(".expressive-code", t, Root), 1)

(***************************************************************************)
(* Tabbed-Content Flattening (part_000).                                   *)
(***************************************************************************)
\* tab.children.filter(text with value.trim()).map(value.trim()).join('')
TabLabel(t, tab) ==
    LET kids == t[tab].children
        F[i \in 0..Len(kids)] ==
            IF i = 0 THEN <<>>
            ELSE IF t[kids[i]].type = "text" /\ Trim(t[kids[i]].value) # <<>>
                 THEN F[i - 1] \o Trim(t[kids[i]].value)
                 ELSE F[i - 1]
    IN F[Len(kids)]

\* Math.min(tabs.length, panels.length)
Min(a, b) == IF a <= b THEN a ELSE b

\* instance.children.push({li: [{p: [text tabLabel]}, panel]}): three new
\* nodes, the panel node itself re-used
PushTabEntry(t, instance, tab, panel) ==
    LET li == Len(t) + 1
        para == Len(t) + 2
        label == Len(t) + 3
    IN [t EXCEPT ![instance].children = Append(@, li)]
       \o << [Element("li", <<>>, "", "") EXCEPT !.children = <<para, panel>>],
             [Element("p", <<>>, "", "") EXCEPT !.children = <<label>>],
             Text(TabLabel(t, tab)) >>

RECURSIVE PushTabEntries(_, _, _, _, _)
PushTabEntries(t, instance, tabs, panels, i) ==
    IF i > Min(Len(tabs), Len(panels)) THEN t
    ELSE PushTabEntries(PushTabEntry(t, instance, tabs[i], panels[i]),
                        instance, tabs, panels, i + 1)

\* the body of the loop over the starlight-tabs instances
FlattenTabs(t, instance) ==
    LET tabs == selectAll("[role=\"tab\"]", t, instance)
        panels == selectAll("[role=\"tabpanel\"]", t, instance)
        emptied == [t EXCEPT ![instance] = [Element("ul", <<>>, "", "")
                                             EXCEPT !.children = <<>>]]
    IN PushTabEntries(emptied, instance, tabs, panels, 1)

RECURSIVE ForEachTabs(_, _, _)
ForEachTabs(t, instances, i) ==
    IF i > Len(instances) THEN t
    ELSE ForEachTabs(FlattenTabs(t, instances[i]), instances, i + 1)

ImproveTabsHandling(t) ==
    [t |-> ForEachTabs(t, selectAll("starlight-tabs", t, Root), 1), err |-> FALSE]

(***************************************************************************)
(* File-Tree Widget Cleanup (part_000).                                    *)
(***************************************************************************)
RECURSIVE ForEachFileTree(_, _, _)
ForEachFileTree(t, trees, i) ==
    IF i > Len(trees) THEN [t |-> t, err |-> FALSE]
    ELSE LET r == remove(t, trees[i], TestSelector(".sr-only"))
         IN IF r.err THEN r ELSE ForEachFileTree(r.t, trees, i + 1)

ImproveFileTreeHandling(t) ==
    ForEachFileTree(t, selectAll("starlight-file-tree", t, Root), 1)

(***************************************************************************)
(* Empty List Item Removal (simple-markdown.ts).                           *)
(***************************************************************************)
RECURSIVE ForEachList(_, _, _)
ForEachList(t, lists, i) ==
    IF i > Len(lists) THEN [t |-> t, err |-> FALSE]
    ELSE LET r == remove(t, lists[i], TestEmptyLi)
         IN IF r.err THEN r ELSE ForEachList(r.t, lists, i + 1)

ImproveListHandling(t) == ForEachList(t, selectAll("ul, ol", t, Root), 1)

(***************************************************************************)
(* Table Flattening (simple-markdown.ts).                                  *)
(***************************************************************************)
RECURSIVE extractTextFromElement(_, _), ExtractEach(_, _, _)
extractTextFromElement(t, id) ==
    IF id = Nil THEN <<>>
    ELSE IF t[id].type = "text" THEN t[id].value
    ELSE IF t[id].type = "element"
         THEN Join(ExtractEach(t, t[id].children, 1), <<" ">>)
    ELSE <<>>

ExtractEach(t, kids, i) ==
    IF i > Len(kids) THEN <<>>
    ELSE <<extractTextFromElement(t, kids[i])>> \o ExtractEach(t, kids, i + 1)

\* the cells of a row: selectAll('td, th', row)
CellsOfRow(t, row) == selectAll("td, th", t, row)

\* the rows of a table: selectAll('tr', table)
RowsOfTable(t, table) == selectAll("tr", t, table)

\* cellTexts of one row: the trimmed texts of the cells that are not blank
CellTexts(t, row) ==
    LET cells == CellsOfRow(t, row)
        F[i \in 0..Len(cells)] ==
            IF i = 0 THEN <<>>
            ELSE LET cellText == extractTextFromElement(t, cells[i])
                 IN IF Trim(cellText) # <<>> THEN Append(F[i - 1], Trim(cellText))
                    ELSE F[i - 1]
    IN F[Len(cells)]

\* textRows of one table
TextRows(t, table) ==
    LET rows == RowsOfTable(t, table)
        F[i \in 0..Len(rows)] ==
            IF i = 0 THEN <<>>
            ELSE LET cellTexts == CellTexts(t, rows[i])
                 IN IF Len(cellTexts) > 0
                    THEN Append(F[i - 1], Join(cellTexts, <<" ", "|", " ">>))
                    ELSE F[i - 1]
    IN F[Len(rows)]

\* the body of the loop over the tables
FlattenTable(t, table) ==
    LET textRows == TextRows(t, table)
    IN IF Len(textRows) > 0
       THEN [t EXCEPT ![table] = [Element("div", <<>>, "", "")
                                   EXCEPT !.children = <<Len(t) + 1>>]]
            \o <<Text(Join(textRows, <<"\n">>))>>
       ELSE t

RECURSIVE ForEachTable(_, _, _)
ForEachTable(t, tables, i) ==
    IF i > Len(tables) THEN t
    ELSE ForEachTable(FlattenTable(t, tables[i]), tables, i + 1)

ImproveTableHandling(t) ==
    [t |-> ForEachTable(t, selectAll("table", t, Root), 1), err |-> FALSE]

(***************************************************************************)
(* The two pipelines: the stages in the order of the .use() calls.         *)
(***************************************************************************)
SimplePipeline ==
    <<"process", "removeLlmsIncompatibleElements", "removeUserSpecifiedElements",
      "keepOnlyStructure", "improveCodeBlockHandling", "convertImageAltToText",
      "improveListHandling", "improveTableHandling", "stringify">>

EntryPipeline ==
    <<"process", "removeSomeElements", "keepOnlyStructure",
      "improveExpressiveCodeHandling", "improveTabsHandling",
      "improveFileTreeHandling", "stringify">>

Pipeline(e) ==
    IF e = "SimpleMarkdown" THEN SimplePipeline
    ELSE IF e = "entryToSimpleMarkdown" THEN EntryPipeline ELSE <<>>

\* the stage named is the next one of the running pipeline
Ready(name) ==
    /\ ~err
    /\ \E i \in 1..(Len(Pipeline(entry)) - 1) :
          Pipeline(entry)[i] = stage /\ Pipeline(entry)[i + 1] = name

\* a stage that ran: the tree it leaves, or the exception that ends the call
Ran(name, r) ==
    /\ before' = tree
    /\ tree' = r.t
    /\ err' = r.err
    /\ stage' = IF r.err THEN "failed" ELSE name
    /\ UNCHANGED <<parsed, entry, ignoreSelectors, onlyStructure, markdown, serialized>>
    /\ UNCHANGED buildVars

(***************************************************************************)
(* rehype-parse: the tree is built in document order; a node is appended   *)
(* as the last child of an open element.  Text and comment nodes and void  *)
(* elements have no children; adjacent text is one text node.              *)
(***************************************************************************)
VoidTags == {"img", "embed"}

RECURSIVE OpenElements(_, _)
OpenElements(t, id) ==
    IF ~IsParent(t[id]) \/ t[id].tagName \in VoidTags THEN {}
    ELSE {id} \cup (IF t[id].children = <<>> THEN {}
                    ELSE OpenElements(t, t[id].children[Len(t[id].children)]))

\* placements: the pairs <<open element, node>> the documents fed in contain
ParseAppend(placements, max) ==
    /\ stage = "parse"
    /\ Len(tree) <= max
    /\ \E pl \in placements :
        LET p == pl[1]
            tpl == pl[2]
        IN
          /\ p \in OpenElements(tree, Root)
          /\ tpl.type = "text" /\ tree[p].children # <<>>
                => tree[tree[p].children[Len(tree[p].children)]].type # "text"
          /\ tree' = Append([tree EXCEPT ![p].children = Append(@, Len(tree) + 1)],
                            tpl)
    /\ UNCHANGED <<before, parsed, stage, entry, ignoreSelectors, onlyStructure,
                   err, markdown, serialized>>
    /\ UNCHANGED buildVars

\* htmlToMarkdownPipeline.process({value: html, data: {onlyStructure, ignoreSelectors}})
Process(e, sels, only) ==
    /\ stage = "parse"
    /\ stage' = "process"
    /\ entry' = e
    /\ ignoreSelectors' = sels
    /\ onlyStructure' = only
    /\ parsed' = tree
    /\ before' = tree
    /\ UNCHANGED <<tree, err, markdown, serialized>>
    /\ UNCHANGED buildVars

(***************************************************************************)
(* The stages as steps of the running call.                                *)
(***************************************************************************)
removeLlmsIncompatibleElements ==
    /\ Ready("removeLlmsIncompatibleElements")
    /\ Ran("removeLlmsIncompatibleElements", RemoveLlmsIncompatible(tree))

removeUserSpecifiedElements ==
    /\ Ready("removeUserSpecifiedElements")
    /\ Ran("removeUserSpecifiedElements", RemoveUserSpecified(tree, ignoreSelectors))

removeSomeElements ==
    /\ Ready("removeSomeElements")
    /\ Ran("removeSomeElements", RemoveUserSpecified(tree, ignoreSelectors))

keepOnlyStructure ==
    /\ Ready("keepOnlyStructure")
    /\ Ran("keepOnlyStructure", KeepOnlyStructure(tree, onlyStructure))

Init ==
    /\ tree = <<RootNode>>
    /\ before = <<RootNode>>
    /\ parsed = <<RootNode>>
    /\ stage = "parse"
    /\ entry = ""
    /\ ignoreSelectors = <<>>
    /\ onlyStructure = FALSE
    /\ err = FALSE
    /\ markdown = <<>>
    /\ serialized = <<>>
    /\ NoBuild

improveCodeBlockHandling ==
    /\ Ready("improveCodeBlockHandling")
    /\ Ran("improveCodeBlockHandling", ImproveCodeBlockHandling(tree))

\* the stage returns the tree as it is
convertImageAltToText ==
    /\ Ready("convertImageAltToText")
    /\ Ran("convertImageAltToText", [t |-> tree, err |-> FALSE])

improveListHandling ==
    /\ Ready("improveListHandling")
    /\ Ran("improveListHandling", ImproveListHandling(tree))

improveTableHandling ==
    /\ Ready("improveTableHandling")
    /\ Ran("improveTableHandling", ImproveTableHandling(tree))

improveExpressiveCodeHandling ==
    /\ Ready("improveExpressiveCodeHandling")
    /\ Ran("improveExpressiveCodeHandling", ImproveExpressiveCodeHandling(tree))

improveTabsHandling ==
    /\ Ready("improveTabsHandling")
    /\ Ran("improveTabsHandling", ImproveTabsHandling(tree))

improveFileTreeHandling ==
    /\ Ready("improveFileTreeHandling")
    /\ Ran("improveFileTreeHandling", ImproveFileTreeHandling(tree))

\* the stages of SimpleMarkdown after the removal stages
SimpleStages ==
    \/ improveCodeBlockHandling
    \/ convertImageAltToText
    \/ improveListHandling
    \/ improveTableHandling

\* the stages of entryToSimpleMarkdown after the removal stages
EntryStages ==
    \/ improveExpressiveCodeHandling
    \/ improveTabsHandling
    \/ improveFileTreeHandling

\* the tree the serializer is handed
Handed ==
    /\ ~err
    /\ \/ entry = "SimpleMarkdown" /\ stage = "improveTableHandling"
       \/ entry = "entryToSimpleMarkdown" /\ stage = "improveFileTreeHandling"

(***************************************************************************)
(* Removal specification: input trees of media, opt-out and structural     *)
(* elements, converted through either entry point.                         *)
(***************************************************************************)
RemovalTemplates ==
    { Element("p", <<>>, "", ""),
      Element("img", <<>>, "", ""),
      Element("div", <<"gallery">>, "", ""),
      Element("div", <<"no-llms">>, "", ""),
      Element("h2", <<>>, "", ""),
      Text(<<"s">>) }

RemovalSelectorLists ==
    { <<>>, pageIgnoreSelectors, <<"a[", ".no-llms">>, <<".no-llms", "a[">> }

AnyNesting(parent, child) == TRUE

ParseRemoval == 
    ParseAppend({pl \in (1..Len(tree)) \X RemovalTemplates :
                    AnyNesting(tree[pl[1]], pl[2])}, MaxNodes)

CallSimpleMarkdown ==
    \E sels \in RemovalSelectorLists, only \in BOOLEAN :
        Process("SimpleMarkdown", sels, only)

CallEntryToSimpleMarkdown ==
    \E sels \in RemovalSelectorLists, only \in BOOLEAN :
        Process("entryToSimpleMarkdown", sels, only)

NextRemoval ==
    \/ ParseRemoval
    \/ CallSimpleMarkdown
    \/ CallEntryToSimpleMarkdown
    \/ removeLlmsIncompatibleElements
    \/ removeUserSpecifiedElements
    \/ removeSomeElements
    \/ keepOnlyStructure
    \/ SimpleStages
    \/ EntryStages

SpecRemoval == Init /\ [][NextRemoval]_vars

\* the nodes matching one of the selectors, and the nodes below them
Matching(t, sels) ==
    {id \in InTree(t) : \E i \in 1..Len(sels) : Matches(sels[i], t[id])}

WithSubtrees(t, ids) == ids \cup UNION {Descendants(t, id) : id \in ids}

\* C1: the tree handed to the serializer holds no node matching a selector
\* of the built-in blocklist and no node of the input that was inside such a
\* node, for both entry points.
C1_NoMediaHanded ==
    Handed =>
        /\ Matching(tree, llmsExcludedSelectors) = {}
        /\ InTree(tree)
             \cap WithSubtrees(parsed, Matching(parsed, llmsExcludedSelectors)) = {}

\* the part of C1 that is about SimpleMarkdown alone
C1_NoMediaHandedBySimpleMarkdown ==
    entry = "SimpleMarkdown" => C1_NoMediaHanded

\* C2: after the User-Specified Exclusion stage no node of the tree matches a
\* selector of ignoreSelectors, every node that was below a matching node is
\* gone, and none of them is in the tree at any later stage.
AfterUserExclusion ==
    /\ ~err
    /\ stage \notin {"parse", "process", "removeLlmsIncompatibleElements"}

C2_UserExcludedGone ==
    AfterUserExclusion =>
        /\ stage \in {"removeUserSpecifiedElements", "removeSomeElements"} =>
              /\ Matching(tree, ignoreSelectors) = {}
              /\ InTree(tree)
                   \cap WithSubtrees(before, Matching(before, ignoreSelectors)) = {}
        /\ InTree(tree)
             \cap WithSubtrees(parsed, Matching(parsed, ignoreSelectors)) = {}

\* a .no-llms element holding text was removed and something else was kept
C2_Witness ==
    /\ ~err
    /\ stage \in {"removeUserSpecifiedElements", "removeSomeElements"}
    /\ \E m \in Matching(before, ignoreSelectors) :
          \E d \in Descendants(before, m) : before[d].type = "text"
    /\ InTree(tree) # {Root}

RECURSIVE StructureBelow(_, _)
\* the structural elements all of whose ancestors below id are structural
StructureBelow(t, id) ==
    LET kept == {c \in Range(t[id].children) : ~TestPasses(TestNotStructure, t[c])}
    IN kept \cup UNION {StructureBelow(t, c) : c \in kept}

\* C3: with onlyStructure the nodes left after the Structure-Only Reduction
\* are exactly the structural elements whose ancestors are all structural.
C3_StructureKept ==
    (~err /\ stage = "keepOnlyStructure" /\ onlyStructure) =>
        InTree(tree) \ {Root} = StructureBelow(before, Root)

\* C9: a conversion whose ignoreSelectors holds an invalid selector never
\* ends in an error.
C9_InvalidSelectorIsNoError ==
    (\E i \in 1..Len(ignoreSelectors) : SelectorThrows(ignoreSelectors[i])) => ~err

(***************************************************************************)
(* Code block specification: input trees of Expressive Code blocks and     *)
(* plain pre/code blocks, converted through either entry point up to the   *)
(* Code Block Language Tagging stage.                                      *)
(***************************************************************************)
CodeTemplates ==
    { Element("div", <<"expressive-code">>, "", ""),
      Element("pre", <<>>, "ts", ""),
      Element("pre", <<>>, "diff", ""),
      Element("code", <<>>, "", ""),
      Element("div", <<"ec-line", "ins">>, "", ""),
      Element("div", <<"ec-line", "del">>, "", ""),
      Element("span", <<>>, "", ""),
      Text(<<"x">>) }

\* the nesting Expressive Code renders, with pre and code also outside a
\* block; at most two blocks side by side, two lines in a code element, one
\* span in a line
CodeNesting(parent, child) ==
    CASE parent.type = "root" ->
             /\ Len(parent.children) < 2
             /\ child.tagName = "pre" \/ "expressive-code" \in Range(child.className)
      [] "expressive-code" \in Range(parent.className) ->
             /\ Len(parent.children) < 2
             /\ child.tagName \in {"pre", "code"}
      [] parent.tagName = "pre" ->
             Len(parent.children) < 1 /\ child.tagName = "code"
      [] parent.tagName = "code" ->
             Len(parent.children) < 2 /\ "ec-line" \in Range(child.className)
      [] "ec-line" \in Range(parent.className) ->
             Len(parent.children) < 1 /\ child.tagName = "span"
      [] parent.tagName = "span" -> child.type = "text"
      [] OTHER -> FALSE

ParseCode == 
    ParseAppend({pl \in (1..Len(tree)) \X CodeTemplates :
                    CodeNesting(tree[pl[1]], pl[2])}, MaxCodeNodes)

CallCode ==
    \E e \in {"SimpleMarkdown", "entryToSimpleMarkdown"} : Process(e, <<>>, FALSE)

NextCode ==
    \/ ParseCode
    \/ CallCode
    \/ removeLlmsIncompatibleElements
    \/ removeUserSpecifiedElements
    \/ removeSomeElements
    \/ keepOnlyStructure
    \/ improveCodeBlockHandling
    \/ improveExpressiveCodeHandling

SpecCode == Init /\ [][NextCode]_vars

AfterCodeTagging ==
    /\ ~err
    /\ stage \in {"improveCodeBlockHandling", "improveExpressiveCodeHandling"}

HintedPres(t) ==
    {p \in InTree(t) : t[p].tagName = "pre" /\ t[p].dataLanguage # ""}

CodesBelow(t, p) == {c \in Descendants(t, p) : t[c].tagName = "code"}

FlaggedLines(t, c) ==
    {l \in Range(t[c].children) : Matches("div.ec-line.ins, div.ec-line.del", t[l])}

\* C4: after the Code Block Language Tagging stage every pre with a language
\* hint h and a descendant code has a descendant code carrying language-h (or
\* language-diff when flagged lines were found), wherever the pre sits, and a
\* code element is tagged only inside the subtree of a hinted pre.
C4_EveryHintedPreTagged ==
    AfterCodeTagging =>
        /\ \A p \in HintedPres(tree) :
              CodesBelow(tree, p) # {} =>
                 \E c \in CodesBelow(tree, p) :
                    \/ LanguageClass(tree[p].dataLanguage) \in Range(tree[c].className)
                    \/ /\ FlaggedLines(tree, c) # {}
                       /\ "language-diff" \in Range(tree[c].className)
        /\ \A c \in InTree(tree) :
              tree[c].className # before[c].className =>
                 \E p \in HintedPres(tree) : c \in Descendants(tree, p)

\* the part of C4 that is about SimpleMarkdown alone
C4_EveryHintedPreTaggedBySimpleMarkdown ==
    entry = "SimpleMarkdown" => C4_EveryHintedPreTagged

\* the text nodes of a subtree, in document order
TextsBelow(t, id) ==
    Filter(PreOrder(t, id), {x \in 1..Len(t) : t[x].type = "text"})

\* the first character of the leading text of a line is the marker
LeadsWith(t, line, marker) ==
    TextsBelow(t, line) # <<>> =>
        /\ t[TextsBelow(t, line)[1]].value # <<>>
        /\ t[TextsBelow(t, line)[1]].value[1] = marker

\* the code element of a pre, as select('code', pre) finds it
CodeOfPre(t, p) == select("code", t, p)

DiffPresWithLines(t) ==
    {p \in HintedPres(t) :
        /\ t[p].dataLanguage = "diff"
        /\ CodeOfPre(t, p) # Nil
        /\ FlaggedLines(t, CodeOfPre(t, p)) # {}}

\* C5 as stated: for a pre hinted diff whose code has flagged lines, after the
\* stage every inserted line leads with '+' and every deleted line with '-'.
C5_DiffLinesMarked ==
    AfterCodeTagging =>
        \A p \in DiffPresWithLines(tree) :
           \A l \in FlaggedLines(tree, CodeOfPre(tree, p)) :
              LeadsWith(tree, l, IF "ins" \in Range(tree[l].className) THEN "+" ELSE "-")

\* the code element is the one an Expressive Code block picks together with a
\* first pre whose hint is not diff
PickedWithOtherHint(t, c) ==
    \E instance \in Range(selectAll(".expressive-code", t, Root)) :
        /\ select("code", t, instance) = c
        /\ select("pre", t, instance) # Nil
        /\ t[select("pre", t, instance)].dataLanguage \notin {"", "diff"}

\* C5 as amended: for a pre hinted diff the stage puts no marker in front of
\* its flagged lines; their text is what it was before the stage, unless the
\* code element is also the first code of an Expressive Code block whose
\* first pre has another hint.
C5_DiffLinesUnmarked ==
    AfterCodeTagging =>
        \A p \in DiffPresWithLines(before) :
           LET c == CodeOfPre(before, p)
           IN (entry = "entryToSimpleMarkdown" /\ PickedWithOtherHint(before, c))
              \/ \A l \in FlaggedLines(before, c) :
                    \A x \in Range(TextsBelow(before, l)) :
                       tree[x].value = before[x].value

\* a diff-hinted block of an Expressive Code instance with a flagged line that
\* has text went through the stage of entryToSimpleMarkdown and was tagged
C5_Witness ==
    /\ AfterCodeTagging
    /\ entry = "entryToSimpleMarkdown"
    /\ \E p \in DiffPresWithLines(before) :
          LET c == CodeOfPre(before, p)
          IN /\ ~PickedWithOtherHint(before, c)
             /\ "language-diff" \in Range(tree[c].className)
             /\ \E l \in FlaggedLines(before, c) : TextsBelow(before, l) # <<>>

\* the class tokens the stage pushed on a code element
AddedTokens(c) ==
    SubSeq(tree[c].className, Len(before[c].className) + 1, Len(tree[c].className))

\* the pre elements with a hint other than diff that have a code element
OtherHintedPres(t) ==
    {p \in HintedPres(t) : t[p].dataLanguage # "diff" /\ CodeOfPre(t, p) # Nil}

\* the outcome C15 describes for one pre and its code element
MarkedAsDescribed(p, c) ==
    IF FlaggedLines(before, c) # {}
    THEN /\ "language-diff" \in Range(AddedTokens(c))
         /\ LanguageClass(before[p].dataLanguage) \notin Range(AddedTokens(c))
         /\ \A l \in Range(before[c].children) :
               \A x \in Range(TextsBelow(before, l)) :
                  tree[x].value =
                     IF l \in FlaggedLines(before, c) /\ x = TextsBelow(before, l)[1]
                     THEN <<IF "ins" \in Range(before[l].className) THEN "+" ELSE "-">>
                          \o before[x].value
                     ELSE before[x].value
    ELSE AddedTokens(c) = <<LanguageClass(before[p].dataLanguage)>>

\* C15: for a pre with a hint other than diff, the stage adds language-diff
\* and not language-<hint> to its code element when a child line is flagged,
\* and puts '+' or '-' once in front of the leading text of each flagged
\* line, other lines unchanged; with no flagged line it adds language-<hint>.
C15_FlaggedLinesMarked ==
    AfterCodeTagging =>
       \A p \in OtherHintedPres(before) : MarkedAsDescribed(p, CodeOfPre(before, p))

\* the pre is the first pre of an Expressive Code block, its code element the
\* first code element of that block and of no other
PickedTogether(t, p, c) ==
    /\ \E instance \in Range(selectAll(".expressive-code", t, Root)) :
          select("pre", t, instance) = p /\ select("code", t, instance) = c
    /\ \A instance \in Range(selectAll(".expressive-code", t, Root)) :
          select("code", t, instance) = c => select("pre", t, instance) = p

\* the same for entryToSimpleMarkdown and the blocks Expressive Code renders
C15_BlockLinesMarked ==
    (AfterCodeTagging /\ entry = "entryToSimpleMarkdown") =>
       \A p \in OtherHintedPres(before) :
          PickedTogether(before, p, CodeOfPre(before, p))
             => MarkedAsDescribed(p, CodeOfPre(before, p))

(***************************************************************************)
(* Table specification: input trees of tables, nested tables included,     *)
(* converted by SimpleMarkdown up to the Table Flattening stage.           *)
(***************************************************************************)
TableTemplates ==
    { Element("table", <<"grid">>, "", ""),
      Element("tr", <<>>, "", ""),
      Element("td", <<>>, "", ""),
      Element("th", <<>>, "", ""),
      Text(<<"A">>),
      Text(<<" ", "B">>),
      Text(<<" ">>) }

\* tables hold rows, rows hold cells, cells hold text and tables
TableNesting(parent, child) ==
    CASE parent.type = "root" -> Len(parent.children) < 2 /\ child.tagName = "table"
      [] parent.tagName = "table" -> child.tagName = "tr"
      [] parent.tagName = "tr" -> child.tagName \in {"td", "th"}
      [] parent.tagName \in {"td", "th"} ->
             child.type = "text" \/ child.tagName = "table"
      [] OTHER -> FALSE

ParseTable == 
    ParseAppend({pl \in (1..Len(tree)) \X TableTemplates :
                    TableNesting(tree[pl[1]], pl[2])}, MaxTableNodes)

CallTable == Process("SimpleMarkdown", <<>>, FALSE)

NextTable ==
    \/ ParseTable
    \/ CallTable
    \/ removeLlmsIncompatibleElements
    \/ removeUserSpecifiedElements
    \/ keepOnlyStructure
    \/ SimpleStages

SpecTable == Init /\ [][NextTable]_vars

AfterTableFlattening == ~err /\ stage = "improveTableHandling"

RECURSIVE OwnMatches(_, _, _, _), OwnMatchesEach(_, _, _, _, _)
\* the elements with one of the tags below id, in document order, that no
\* element with one of the stop tags separates from id
OwnMatches(t, id, tags, stops) == OwnMatchesEach(t, t[id].children, 1, tags, stops)

OwnMatchesEach(t, kids, i, tags, stops) ==
    IF i > Len(kids) THEN <<>>
    ELSE (IF t[kids[i]].tagName \in tags THEN <<kids[i]>> ELSE <<>>)
         \o (IF t[kids[i]].tagName \in stops THEN <<>>
             ELSE OwnMatches(t, kids[i], tags, stops))
         \o OwnMatchesEach(t, kids, i + 1, tags, stops)

\* the rows of a table itself, and the cells of a row itself
OwnRows(t, table) == OwnMatches(t, table, {"tr"}, {"table", "tr"})
OwnCells(t, row) == OwnMatches(t, row, {"td", "th"}, {"table", "tr", "td", "th"})

\* the text of one row as C6 states it
OwnRowText(t, row) ==
    LET cells == OwnCells(t, row)
        F[i \in 0..Len(cells)] ==
            IF i = 0 THEN <<>>
            ELSE LET cellText == Trim(extractTextFromElement(t, cells[i]))
                 IN IF cellText # <<>> THEN Append(F[i - 1], cellText) ELSE F[i - 1]
    IN Join(F[Len(cells)], <<" ", "|", " ">>)

\* the text of a table as C6 states it: its non-blank rows, each once
OwnTableText(t, table) ==
    LET rows == OwnRows(t, table)
        F[i \in 0..Len(rows)] ==
            IF i = 0 THEN <<>>
            ELSE IF OwnRowText(t, rows[i]) # <<>>
                 THEN Append(F[i - 1], OwnRowText(t, rows[i])) ELSE F[i - 1]
    IN Join(F[Len(rows)], <<"\n">>)

TablesOf(t) == {x \in InTree(t) : t[x].tagName = "table"}

\* C6: a table with a non-blank cell becomes a div without attributes whose
\* only child is a text node holding the table's own rows in document order,
\* each row the trimmed non-blank texts of its own cells joined by " | ",
\* each row and cell contributing once.
C6_TableBecomesRowText ==
    AfterTableFlattening =>
        \A table \in TablesOf(before) :
           OwnTableText(before, table) # <<>> =>
              /\ tree[table].tagName = "div"
              /\ tree[table].className = <<>>
              /\ tree[table].dataLanguage = ""
              /\ tree[table].role = ""
              /\ Len(tree[table].children) = 1
              /\ tree[tree[table].children[1]].type = "text"
              /\ tree[tree[table].children[1]].value = OwnTableText(before, table)

\* the part of C6 that is about tables without a table inside
C6_FlatTableBecomesRowText ==
    AfterTableFlattening =>
        \A table \in TablesOf(before) :
           (OwnTableText(before, table) # <<>>
            /\ ~\E x \in Descendants(before, table) : before[x].tagName = "table") =>
              /\ tree[table].tagName = "div"
              /\ Len(tree[table].children) = 1
              /\ tree[tree[table].children[1]].value = OwnTableText(before, table)

(***************************************************************************)
(* cleanupMarkdownForLlms: the regular expressions, as scans of the        *)
(* string.  MatchEnd is the index of the last character of the match that  *)
(* starts at i, or 0 when the expression does not match there.             *)
(***************************************************************************)
LineTerminators == {"\n", "\r"}

\* the index of the first occurrence of character c at or after i, or 0
FirstAt(s, i, c) ==
    LET hits == {k \in i..Len(s) : s[k] = c}
    IN IF hits = {} THEN 0 ELSE CHOOSE k \in hits : \A m \in hits : k <= m

\* the index of the last character of the run of characters of cs that
\* starts at i; i - 1 when s[i] is not in cs
RunEnd(s, i, cs) ==
    LET stops == {k \in i..Len(s) : s[k] \notin cs}
    IN IF stops = {} THEN Len(s)
       ELSE (CHOOSE k \in stops : \A m \in stops : k <= m) - 1

Is(s, i, c) == i >= 1 /\ i <= Len(s) /\ s[i] = c

\* ^ and $ under the m flag
AtLineStart(s, i) == i = 1 \/ s[i - 1] \in LineTerminators
AtLineEnd(s, i) == i > Len(s) \/ s[i] \in LineTerminators

\* !\[([^\]]*)\]\([^)]+\) starting at i: <<index of ], index of the last )>>
ImageAt(s, i) ==
    IF ~(Is(s, i, "!") /\ Is(s, i + 1, "[")) THEN <<0, 0>>
    ELSE LET k == FirstAt(s, i + 2, "]")
         IN IF k = 0 \/ ~Is(s, k + 1, "(") THEN <<0, 0>>
            ELSE LET m == FirstAt(s, k + 2, ")")
                 IN IF m = 0 \/ m < k + 3 THEN <<0, 0>> ELSE <<k, m>>

MatchEnd(rule, s, i) ==
    CASE rule = "image" -> ImageAt(s, i)[2]
      [] rule = "imageLine" ->
             \* ^\s*!\[[^\]]*\]\([^)]+\)\s*$
             IF ~AtLineStart(s, i) THEN 0
             ELSE LET w == RunEnd(s, i, WhiteSpace) + 1
                      m == ImageAt(s, w)[2]
                  IN IF m = 0 THEN 0
                     ELSE LET e == RunEnd(s, m + 1, WhiteSpace)
                              ends == {q \in m..e : AtLineEnd(s, q + 1)}
                          IN IF ends = {} THEN 0
                             ELSE CHOOSE q \in ends : \A r \in ends : r <= q
      [] rule = "blankLines" ->
             \* \n{3,}
             IF Is(s, i, "\n") /\ Is(s, i + 1, "\n") /\ Is(s, i + 2, "\n")
             THEN RunEnd(s, i, {"\n"}) ELSE 0
      [] rule = "emptyLink" ->
             \* \[\]\([^)]*\)
             IF Is(s, i, "[") /\ Is(s, i + 1, "]") /\ Is(s, i + 2, "(")
             THEN FirstAt(s, i + 3, ")") ELSE 0
      [] rule = "emptyTarget" ->
             \* \[([^\]]+)\]\(\s*\)
             IF ~Is(s, i, "[") THEN 0
             ELSE LET k == FirstAt(s, i + 1, "]")
                  IN IF k < i + 2 \/ ~Is(s, k + 1, "(") THEN 0
                     ELSE LET e == RunEnd(s, k + 2, WhiteSpace)
                          IN IF Is(s, e + 1, ")") THEN e + 1 ELSE 0
      [] rule = "comment" ->
             \* <!--[\s\S]*?-->
             IF ~(Is(s, i, "<") /\ Is(s, i + 1, "!") /\ Is(s, i + 2, "-")
                  /\ Is(s, i + 3, "-")) THEN 0
             ELSE LET closes == {k \in (i + 4)..Len(s) :
                                    Is(s, k, "-") /\ Is(s, k + 1, "-") /\ Is(s, k + 2, ">")}
                  IN IF closes = {} THEN 0
                     ELSE (CHOOSE k \in closes : \A m \in closes : k <= m) + 2
      [] rule = "trailingSpace" ->
             \* [ \t]+$
             IF ~(Is(s, i, " ") \/ Is(s, i, "\t")) THEN 0
             ELSE LET e == RunEnd(s, i, {" ", "\t"})
                  IN IF AtLineEnd(s, e + 1) THEN e ELSE 0
      [] rule = "crlf" ->
             \* \r\n
             IF Is(s, i, "\r") /\ Is(s, i + 1, "\n") THEN i + 1 ELSE 0

\* what the match s[i..j] is replaced by
Replacement(rule, s, i, j) ==
    CASE rule = "image" -> <<"[">> \o SubSeq(s, i + 2, ImageAt(s, i)[1] - 1) \o <<"]">>
      [] rule = "blankLines" -> <<"\n", "\n">>
      [] rule = "emptyTarget" -> SubSeq(s, i + 1, FirstAt(s, i + 1, "]") - 1)
      [] rule = "crlf" -> <<"\n">>
      [] OTHER -> <<>>

RECURSIVE ReplaceFrom(_, _, _)
\* String.prototype.replace with a g flag: leftmost matches, left to right
ReplaceFrom(rule, s, i) ==
    IF i > Len(s) THEN <<>>
    ELSE LET j == MatchEnd(rule, s, i)
         IN IF j = 0 THEN <<s[i]>> \o ReplaceFrom(rule, s, i + 1)
            ELSE Replacement(rule, s, i, j) \o ReplaceFrom(rule, s, j + 1)

ReplaceAll(rule, s) == ReplaceFrom(rule, s, 1)

\* the rules in the order of the .replace() calls
CleanupRules ==
    <<"image", "imageLine", "blankLines", "emptyLink", "emptyTarget", "comment",
      "trailingSpace", "crlf">>

RECURSIVE ApplyRules(_, _, _)
ApplyRules(rules, s, i) ==
    IF i > Len(rules) THEN s ELSE ApplyRules(rules, ReplaceAll(rules[i], s), i + 1)

cleanupMarkdownForLlms(s) == Trim(ApplyRules(CleanupRules, s, 1))

(***************************************************************************)
(* Cleanup specification: the serializer emits a document piece by piece   *)
(* and SimpleMarkdown trims and cleans the string.                         *)
(***************************************************************************)
MarkdownPieces ==
    { <<"a">>, <<" ">>, <<"\n">>, <<"\n", "\n">>, <<"\r", "\n">>,
      <<"<", "!", "-", "-", "c", "-", "-", ">">>,
      <<"!">>, <<"[", "a", "]">>, <<"[", "]">>, <<"(", "u", ")">>, <<"(", ")">> }

RECURSIVE Flatten(_)
Flatten(pieces) ==
    IF pieces = <<>> THEN <<>> ELSE Head(pieces) \o Flatten(Tail(pieces))

InitCleanup ==
    /\ tree = <<RootNode>>
    /\ before = <<RootNode>>
    /\ parsed = <<RootNode>>
    /\ stage = "stringify"
    /\ entry = "SimpleMarkdown"
    /\ ignoreSelectors = <<>>
    /\ onlyStructure = FALSE
    /\ err = FALSE
    /\ markdown = <<>>
    /\ serialized = <<>>
    /\ NoBuild

\* remark-stringify writes the next piece of the document
Stringify ==
    /\ stage = "stringify"
    /\ Len(serialized) < MaxPieces
    /\ \E piece \in MarkdownPieces : serialized' = Append(serialized, piece)
    /\ UNCHANGED <<tree, before, parsed, stage, entry, ignoreSelectors,
                   onlyStructure, err, markdown>>
    /\ UNCHANGED buildVars

\* SimpleMarkdown: String(file).trim(), then cleanupMarkdownForLlms
SimpleMarkdownReturns ==
    /\ stage = "stringify"
    /\ entry = "SimpleMarkdown"
    /\ markdown' = cleanupMarkdownForLlms(Trim(Flatten(serialized)))
    /\ stage' = "cleanupMarkdownForLlms"
    /\ UNCHANGED <<tree, before, parsed, entry, ignoreSelectors, onlyStructure,
                   err, serialized>>
    /\ UNCHANGED buildVars

NextCleanup == Stringify \/ SimpleMarkdownReturns

SpecCleanup == InitCleanup /\ [][NextCleanup]_vars

\* C7: the post-processor is idempotent.
C7_CleanupIdempotent ==
    stage = "cleanupMarkdownForLlms" => cleanupMarkdownForLlms(markdown) = markdown

\* C8: the string the post-processor returns has no run of three or more
\* newline characters.
C8_NoThreeNewlines ==
    stage = "cleanupMarkdownForLlms" =>
        ~\E i \in 1..(Len(markdown) - 2) :
            markdown[i] = "\n" /\ markdown[i + 1] = "\n" /\ markdown[i + 2] = "\n"

(***************************************************************************)
(* Widget specification: input trees of code blocks, tab containers and    *)
(* tables with and without their optional parts, converted through either  *)
(* entry point to the end of the pipeline.                                 *)
(***************************************************************************)
WidgetTemplates ==
    { Element("div", <<"expressive-code">>, "", ""),
      Element("figcaption", <<>>, "", ""),
      Element("span", <<"sr-only">>, "", ""),
      Element("pre", <<>>, "ts", ""),
      Element("code", <<>>, "", ""),
      Element("div", <<"ec-line", "ins">>, "", ""),
      Element("span", <<>>, "", ""),
      Element("starlight-tabs", <<>>, "", ""),
      Element("a", <<>>, "", "tab"),
      Element("div", <<>>, "", "tabpanel"),
      Element("table", <<>>, "", ""),
      Element("tr", <<>>, "", ""),
      Element("td", <<>>, "", ""),
      Text(<<"x">>) }

WidgetNesting(parent, child) ==
    CASE parent.type = "root" ->
             /\ Len(parent.children) < 2
             /\ \/ child.tagName \in {"pre", "starlight-tabs", "table"}
                \/ "expressive-code" \in Range(child.className)
      [] "expressive-code" \in Range(parent.className) ->
             /\ Len(parent.children) < 2
             /\ child.tagName \in {"figcaption", "pre"}
      [] parent.tagName = "figcaption" ->
             Len(parent.children) < 1 /\ "sr-only" \in Range(child.className)
      [] parent.tagName = "pre" ->
             Len(parent.children) < 1 /\ child.tagName = "code"
      [] parent.tagName = "code" ->
             Len(parent.children) < 1 /\ "ec-line" \in Range(child.className)
      [] "ec-line" \in Range(parent.className) ->
             Len(parent.children) < 1 /\ child.tagName = "span" /\ child.className = <<>>
      [] parent.tagName = "span" /\ parent.className = <<>> -> child.type = "text"
      [] parent.tagName = "starlight-tabs" ->
             Len(parent.children) < 2 /\ child.role \in {"tab", "tabpanel"}
      [] parent.role \in {"tab", "tabpanel"} -> child.type = "text"
      [] parent.tagName = "table" -> Len(parent.children) < 1 /\ child.tagName = "tr"
      [] parent.tagName = "tr" -> Len(parent.children) < 1 /\ child.tagName = "td"
      [] parent.tagName = "td" -> child.type = "text"
      [] OTHER -> FALSE

ParseWidgets == 
    ParseAppend({pl \in (1..Len(tree)) \X WidgetTemplates :
                    WidgetNesting(tree[pl[1]], pl[2])}, MaxWidgetNodes)

CallWidgets ==
    \E e \in {"SimpleMarkdown", "entryToSimpleMarkdown"} : Process(e, <<>>, FALSE)

NextWidgets ==
    \/ ParseWidgets
    \/ CallWidgets
    \/ removeLlmsIncompatibleElements
    \/ removeUserSpecifiedElements
    \/ removeSomeElements
    \/ keepOnlyStructure
    \/ SimpleStages
    \/ EntryStages

SpecWidgets == Init /\ [][NextWidgets]_vars

TabsOf(t) == {x \in InTree(t) : t[x].tagName = "starlight-tabs"}

InstancesOf(t) == Range(selectAll(".expressive-code", t, Root))

\* the pre elements SimpleMarkdown has to tag, and the blocks
\* entryToSimpleMarkdown has to tag
TaggablePres(t) ==
    {p \in HintedPres(t) : select("code", t, p) # Nil}

TaggableInstances(t) ==
    {x \in InstancesOf(t) :
        /\ select("pre", t, x) # Nil
        /\ t[select("pre", t, x)].dataLanguage # ""
        /\ select("code", t, x) # Nil}

HasLanguageClass(n) ==
    \E i \in 1..Len(n.className) : n.className[i] \in {"language-ts", "language-diff"}

\* C10: no stage fails when an optional sub-element is absent, and every
\* other pre, tab container and table of the tree is still processed.
C10_AbsentPartsSkipped ==
    /\ ~err
    /\ stage # "failed"
    /\ stage = "improveCodeBlockHandling" =>
          \A p \in TaggablePres(before) :
             HasLanguageClass(tree[select("code", before, p)])
    /\ stage = "improveExpressiveCodeHandling" =>
          \A x \in TaggableInstances(before) :
             HasLanguageClass(tree[select("code", before, x)])
    /\ stage = "improveTabsHandling" =>
          \A x \in TabsOf(before) :
             /\ tree[x].tagName = "ul"
             /\ Len(tree[x].children) =
                   Min(Len(selectAll("[role=\"tab\"]", before, x)),
                       Len(selectAll("[role=\"tabpanel\"]", before, x)))
    /\ stage = "improveTableHandling" =>
          \A x \in TablesOf(before) :
             OwnTableText(before, x) # <<>> => tree[x].tagName = "div"

\* a tree went through a stage with one item lacking its optional part and
\* another item, complete, processed: a hinted pre without code next to a
\* tagged one
C10_Witness ==
    /\ ~err
    /\ stage = "improveCodeBlockHandling"
    /\ \E p \in HintedPres(before) : select("code", before, p) = Nil
    /\ \E p \in TaggablePres(before) :
          HasLanguageClass(tree[select("code", before, p)])

\* C13: after Table Flattening no table element is left in the tree: every
\* table of the document that is still in the tree is a div without
\* attributes, and one without a non-blank row is a div without content.
C13_NoTableRemains ==
    AfterTableFlattening =>
       /\ \A x \in InTree(tree) : tree[x].tagName # "table"
       /\ \A x \in TablesOf(before) \cap InTree(tree) :
             /\ tree[x].tagName = "div"
             /\ tree[x].className = <<>>
             /\ TextRows(before, x) = <<>> =>
                   \A k \in Range(tree[x].children) :
                      tree[k].type = "text" /\ tree[k].value = <<>>

(***************************************************************************)
(* Tabs specification: input trees of tab containers, with labels made of  *)
(* text and icons, and with panels that hold text, ARIA tab markup of      *)
(* their own or another tab container, converted by entryToSimpleMarkdown. *)
(***************************************************************************)
MaxTabNodes == 6

TabTemplates ==
    { Element("starlight-tabs", <<>>, "", ""),
      Element("a", <<>>, "", "tab"),
      Element("div", <<>>, "", "tabpanel"),
      Element("svg", <<>>, "", ""),
      Text(<<"x">>),
      Text(<<" ", "y">>) }

\* at most two containers side by side, three parts in a container, three
\* parts in a label, two parts in a panel
TabNesting(parent, child) ==
    CASE parent.type = "root" ->
             Len(parent.children) < 2 /\ child.tagName = "starlight-tabs"
      [] parent.tagName = "starlight-tabs" ->
             Len(parent.children) < 3 /\ child.role \in {"tab", "tabpanel"}
      [] parent.role = "tab" ->
             Len(parent.children) < 3 /\ (child.type = "text" \/ child.tagName = "svg")
      [] parent.role = "tabpanel" ->
             /\ Len(parent.children) < 2
             /\ \/ child.type = "text"
                \/ child.tagName = "starlight-tabs"
                \/ child.role \in {"tab", "tabpanel"}
      [] OTHER -> FALSE

ParseTabs ==
    ParseAppend({pl \in (1..Len(tree)) \X TabTemplates :
                    TabNesting(tree[pl[1]], pl[2])}, MaxTabNodes)

CallTabs == Process("entryToSimpleMarkdown", <<>>, FALSE)

NextTabs ==
    \/ ParseTabs
    \/ CallTabs
    \/ removeSomeElements
    \/ keepOnlyStructure
    \/ EntryStages

SpecTabs == Init /\ [][NextTabs]_vars

\* the places a node occupies: the positions of the children sequences of
\* the nodes of the document that hold it
ParentSlots(t, id) ==
    {sl \in InTree(t) \X (1..Len(t)) :
        sl[2] <= Len(t[sl[1]].children) /\ t[sl[1]].children[sl[2]] = id}

IsTree(t) ==
    \A id \in InTree(t) :
       Cardinality(ParentSlots(t, id)) = (IF id = Root THEN 0 ELSE 1)

\* C11: after every stage the document is a tree: the root has no parent and
\* every other node is in exactly one children sequence, exactly once (so
\* no panel is a child of two list items after Tabbed-Content Flattening).
C11_StillATree ==
    (~err /\ stage # "parse") => IsTree(tree)

AfterTabsFlattening == ~err /\ stage = "improveTabsHandling"

LabelsOf(t, x) == selectAll("[role=\"tab\"]", t, x)

PanelsOf(t, x) == selectAll("[role=\"tabpanel\"]", t, x)

\* the list item a container got for its i-th label and i-th panel
IsTabEntry(t, li, label, panel) ==
    /\ t[li].type = "element" /\ t[li].tagName = "li"
    /\ Len(t[li].children) = 2
    /\ t[li].children[2] = panel
    /\ LET para == t[li].children[1]
       IN /\ t[para].type = "element" /\ t[para].tagName = "p"
          /\ Len(t[para].children) = 1
          /\ t[t[para].children[1]].type = "text"
          /\ t[t[para].children[1]].value = label

\* C12: after Tabbed-Content Flattening every tab container of the document
\* is a ul without attributes that has min(labels, panels) li children, the
\* i-th one a p with the trimmed text of the i-th label followed by the i-th
\* panel; the labels and panels beyond the minimum are nowhere in the tree.
C12_TabsBecomeList ==
    AfterTabsFlattening =>
       \A x \in TabsOf(before) \cap InTree(tree) :
          LET labels == LabelsOf(before, x)
              panels == PanelsOf(before, x)
              n == Min(Len(labels), Len(panels))
          IN /\ tree[x].tagName = "ul"
             /\ tree[x].className = <<>> /\ tree[x].role = ""
             /\ tree[x].dataLanguage = ""
             /\ Len(tree[x].children) = n
             /\ \A i \in 1..n :
                   IsTabEntry(tree, tree[x].children[i],
                              TabLabel(before, labels[i]), panels[i])
             /\ \A i \in (n + 1)..Len(labels) : labels[i] \notin InTree(tree)
             /\ \A i \in (n + 1)..Len(panels) : panels[i] \notin InTree(tree)

(***************************************************************************)
(* List specification: input trees of lists, with items that are empty,    *)
(* hold blank text or hold a nested list, converted by SimpleMarkdown.     *)
(***************************************************************************)
MaxListNodes == 5

ListTemplates ==
    { Element("ul", <<>>, "", ""),
      Element("ol", <<>>, "", ""),
      Element("li", <<>>, "", ""),
      Element("p", <<>>, "", ""),
      Text(<<" ">>),
      Text(<<"x">>) }

\* lists and paragraphs in the document, items in lists, text, paragraphs
\* and lists in items
ListNesting(parent, child) ==
    CASE parent.type = "root" ->
             Len(parent.children) < 2 /\ child.tagName \in {"ul", "ol", "p"}
      [] parent.tagName \in {"ul", "ol"} ->
             Len(parent.children) < 3 /\ child.tagName = "li"
      [] parent.tagName = "li" ->
             /\ Len(parent.children) < 2
             /\ child.type = "text" \/ child.tagName \in {"ul", "ol", "p"}
      [] parent.tagName = "p" -> Len(parent.children) < 1 /\ child.type = "text"
      [] OTHER -> FALSE

ParseList ==
    ParseAppend({pl \in (1..Len(tree)) \X ListTemplates :
                    ListNesting(tree[pl[1]], pl[2])}, MaxListNodes)

CallList == Process("SimpleMarkdown", <<>>, FALSE)

NextList ==
    \/ ParseList
    \/ CallList
    \/ removeLlmsIncompatibleElements
    \/ removeUserSpecifiedElements
    \/ keepOnlyStructure
    \/ SimpleStages

SpecList == Init /\ [][NextList]_vars

AfterListHandling == ~err /\ stage = "improveListHandling"

ListsOf(t) == {l \in InTree(t) : t[l].tagName \in {"ul", "ol"}}

\* an li element without children somewhere below a ul or ol
EmptyItemInList(t, x) ==
    /\ t[x].type = "element" /\ t[x].tagName = "li"
    /\ t[x].children = <<>>
    /\ \E l \in ListsOf(t) : x \in Descendants(t, l)

\* C14: Empty List Item Removal removes the childless li elements inside the
\* lists and nothing else: none is left, and every other node is still in
\* the tree, its children those it had without the childless items.
C14_OnlyEmptyItemsRemoved ==
    AfterListHandling =>
       /\ \A x \in InTree(tree) : ~EmptyItemInList(tree, x)
       /\ \A x \in InTree(before) :
             ~EmptyItemInList(before, x) =>
                /\ x \in InTree(tree)
                /\ tree[x].children =
                      Filter(before[x].children,
                             {k \in 1..Len(before) : ~EmptyItemInList(before, k)})

\* the same for the lists all of whose items keep a child
C14_EmptyItemsRemovedBesideFullOnes ==
    AfterListHandling =>
       /\ \A x \in InTree(tree) : ~EmptyItemInList(tree, x)
       /\ (\A l \in ListsOf(before) :
              ~EmptyItemInList(before, l) /\
              \E k \in Range(before[l].children) : ~EmptyItemInList(before, k))
          => \A x \in InTree(before) :
                ~EmptyItemInList(before, x) =>
                   /\ x \in InTree(tree)
                   /\ tree[x].children =
                         Filter(before[x].children,
                                {k \in 1..Len(before) : ~EmptyItemInList(before, k)})

(***************************************************************************)
(* Token specification: input trees in which a code element already has a  *)
(* language class, pre elements are nested and Expressive Code blocks are  *)
(* nested, converted through either entry point up to the Code Block       *)
(* Language Tagging stage.                                                 *)
(***************************************************************************)
MaxTokenNodes == 5

TokenTemplates ==
    { Element("div", <<"expressive-code">>, "", ""),
      Element("pre", <<>>, "ts", ""),
      Element("code", <<>>, "", ""),
      Element("code", <<"language-ts">>, "", ""),
      Element("div", <<"ec-line", "ins">>, "", "") }

TokenNesting(parent, child) ==
    CASE parent.type = "root" ->
             /\ Len(parent.children) < 2
             /\ child.tagName = "pre" \/ "expressive-code" \in Range(child.className)
      [] "expressive-code" \in Range(parent.className) ->
             /\ Len(parent.children) < 2
             /\ child.tagName = "pre" \/ "expressive-code" \in Range(child.className)
      [] parent.tagName = "pre" ->
             Len(parent.children) < 2 /\ child.tagName \in {"pre", "code"}
      [] parent.tagName = "code" ->
             Len(parent.children) < 1 /\ "ec-line" \in Range(child.className)
      [] OTHER -> FALSE

ParseTokens ==
    ParseAppend({pl \in (1..Len(tree)) \X TokenTemplates :
                    TokenNesting(tree[pl[1]], pl[2])}, MaxTokenNodes)

CallTokens ==
    \E e \in {"SimpleMarkdown", "entryToSimpleMarkdown"} : Process(e, <<>>, FALSE)

NextTokens ==
    \/ ParseTokens
    \/ CallTokens
    \/ removeLlmsIncompatibleElements
    \/ removeUserSpecifiedElements
    \/ removeSomeElements
    \/ keepOnlyStructure
    \/ improveCodeBlockHandling
    \/ improveExpressiveCodeHandling

SpecTokens == Init /\ [][NextTokens]_vars

LanguageTokens == {LanguageClass(h) : h \in {"ts", "diff"}}

\* a language-* token is at two positions of the class list
TokenTwice(n) ==
    \E i, j \in 1..Len(n.className) :
       i < j /\ n.className[i] = n.className[j] /\ n.className[i] \in LanguageTokens

\* C16: after the Code Block Language Tagging stage no code element has the
\* same language-* token twice in its class list, whether the token was in
\* the input or several pre elements or blocks resolve to the code element.
C16_NoTokenTwice ==
    AfterCodeTagging =>
       \A c \in InTree(tree) : tree[c].tagName = "code" => ~TokenTwice(tree[c])

\* the same when every code element comes without a language class and is
\* the code element of one pre or block only
C16_NoTokenTwiceForOnePre ==
    AfterCodeTagging =>
       \A c \in InTree(tree) :
          (/\ tree[c].tagName = "code"
           /\ before[c].className = <<>>
           /\ Cardinality({p \in HintedPres(before) : CodeOfPre(before, p) = c}) <= 1
           /\ Cardinality({x \in InstancesOf(before) : select("code", before, x) = c}) <= 1)
          => ~TokenTwice(tree[c])

(***************************************************************************)
(* Build specification (index.ts): the astro:build:done hook calls         *)
(* discoverAndProcessPages, which starts one task per page; every task     *)
(* awaits fs.access and then extractPageData, either of which may reject;  *)
(* the hook then writes the three output files.                            *)
(***************************************************************************)
MaxPages == 3

\* pathnames Astro reports, in an order that is not the sorted one
AllPathnames == <<"docs/", "about/", "blog/", "", "blog/post/">>

Pathnames == {AllPathnames[i] : i \in 1..MaxPages}

\* the lists of pages a build can hand over: every route once
PageLists ==
    {l \in UNION {[1..n -> Pathnames] : n \in 0..MaxPages} :
        \A i, j \in DOMAIN l : l[i] = l[j] => i = j}

OutputFiles == {"llms.txt", "llms-small.txt", "llms-full.txt"}

\* the place of a pathname in the collation order of the pathnames
Rank(p) ==
    CASE p = "" -> 1
      [] p = "about/" -> 2
      [] p = "blog/" -> 3
      [] p = "blog/post/" -> 4
      [] p = "docs/" -> 5

\* a.localeCompare(b)
localeCompare(a, b) ==
    IF Rank(a) < Rank(b) THEN 0 - 1 ELSE IF Rank(a) > Rank(b) THEN 1 ELSE 0

Pending == [kind |-> "pending", pathname |-> ""]

NullResult == [kind |-> "null", pathname |-> ""]

\* the PageData extractPageData returns for a page
PageData(pathname) == [kind |-> "PageData", pathname |-> pathname]

\* Array.prototype.sort((a, b) => a.pathname.localeCompare(b.pathname))
RECURSIVE InsertPage(_, _)
InsertPage(sorted, x) ==
    IF sorted = <<>> THEN <<x>>
    ELSE IF localeCompare(x.pathname, sorted[Len(sorted)].pathname) < 0
         THEN Append(InsertPage(SubSeq(sorted, 1, Len(sorted) - 1), x),
                     sorted[Len(sorted)])
         ELSE Append(sorted, x)

RECURSIVE SortPages(_)
SortPages(s) ==
    IF s = <<>> THEN <<>>
    ELSE InsertPage(SortPages(SubSeq(s, 1, Len(s) - 1)), s[Len(s)])

\* a page task without its catch block: the error leaves the task
RethrowPageError(pathname) ==
    [result |-> Pending, warned |-> {}, task |-> "rejected"]

\* catch (error) { console.warn(...); return null; }
CatchPageError(pathname) ==
    [result |-> NullResult, warned |-> {pathname}, task |-> "settled"]

\* the astro:build:done hook is called with the pages of the build
InitBuild ==
    /\ tree = <<RootNode>>
    /\ before = <<RootNode>>
    /\ parsed = <<RootNode>>
    /\ stage = "parse"
    /\ entry = ""
    /\ ignoreSelectors = <<>>
    /\ onlyStructure = FALSE
    /\ err = FALSE
    /\ markdown = <<>>
    /\ serialized = <<>>
    /\ pages \in PageLists
    /\ hook = "buildDone"
    /\ task = [i \in DOMAIN pages |-> "created"]
    /\ accessible = {}
    /\ extracted = {}
    /\ results = [i \in DOMAIN pages |-> Pending]
    /\ warned = {}
    /\ pageData = <<>>
    /\ written = {}

\* pages.map(async (page) => ...): every task runs up to its await fs.access
discoverAndProcessPages ==
    /\ hook = "buildDone"
    /\ hook' = "awaitPages"
    /\ task' = [i \in DOMAIN pages |-> "access"]
    /\ UNCHANGED <<pages, accessible, extracted, results, warned, pageData, written>>
    /\ UNCHANGED conversionVars

\* the task ends in its catch block
TaskFails(i) ==
    LET c == CatchPageError(pages[i])
    IN /\ task' = [task EXCEPT ![i] = c.task]
       /\ results' = [results EXCEPT ![i] = c.result]
       /\ warned' = warned \cup c.warned
       /\ UNCHANGED <<pages, hook, accessible, extracted, pageData, written>>
       /\ UNCHANGED conversionVars

\* await fs.access(htmlPath) resolves: extractPageData is called
AccessResolves ==
    \E i \in DOMAIN pages :
       /\ task[i] = "access"
       /\ task' = [task EXCEPT ![i] = "extract"]
       /\ accessible' = accessible \cup {i}
       /\ UNCHANGED <<pages, hook, extracted, results, warned, pageData, written>>
       /\ UNCHANGED conversionVars

\* await fs.access(htmlPath) rejects
AccessRejects ==
    \E i \in DOMAIN pages : task[i] = "access" /\ TaskFails(i)

\* await extractPageData(...) resolves: return pageData
ExtractResolves ==
    \E i \in DOMAIN pages :
       /\ task[i] = "extract"
       /\ task' = [task EXCEPT ![i] = "settled"]
       /\ extracted' = extracted \cup {i}
       /\ results' = [results EXCEPT ![i] = PageData(pages[i])]
       /\ UNCHANGED <<pages, hook, accessible, warned, pageData, written>>
       /\ UNCHANGED conversionVars

\* await extractPageData(...) rejects
ExtractRejects ==
    \E i \in DOMAIN pages : task[i] = "extract" /\ TaskFails(i)

\* await Promise.all(pagePromises): rejects with the first promise that
\* rejects, resolves when every promise has resolved; then filter and sort
PromiseAll ==
    /\ hook = "awaitPages"
    /\ IF \E i \in DOMAIN pages : task[i] = "rejected"
       THEN hook' = "failed" /\ pageData' = pageData
       ELSE /\ \A i \in DOMAIN pages : task[i] = "settled"
            /\ hook' = "generate"
            /\ pageData' =
                  SortPages(Filter(results,
                                   {r \in Range(results) : r.kind = "PageData"}))
    /\ UNCHANGED <<pages, task, accessible, extracted, results, warned, written>>
    /\ UNCHANGED conversionVars

\* Promise.all([generateLlmsTxt, generateLlmsSmallTxt, generateLlmsFullTxt]):
\* one of the three generators writes its file
GenerateFile ==
    /\ hook = "generate"
    /\ \E f \in OutputFiles \ written : written' = written \cup {f}
    /\ UNCHANGED <<pages, hook, task, accessible, extracted, results, warned, pageData>>
    /\ UNCHANGED conversionVars

\* the hook returns once the three files are written
HookReturns ==
    /\ hook = "generate"
    /\ written = OutputFiles
    /\ hook' = "done"
    /\ UNCHANGED <<pages, task, accessible, extracted, results, warned, pageData, written>>
    /\ UNCHANGED conversionVars

NextBuild ==
    \/ discoverAndProcessPages
    \/ AccessResolves
    \/ AccessRejects
    \/ ExtractResolves
    \/ ExtractRejects
    \/ PromiseAll
    \/ GenerateFile
    \/ HookReturns

SpecBuild == InitBuild /\ [][NextBuild]_vars

====
